---- MODULE Spec2Model ----
(***************************************************************************)
(* bn-loader: the profile synchronisation engine (src/src/sync.rs).        *)
(*                                                                         *)
(* The file system is a function from paths (sequences of names) to nodes; *)
(* a path is in its domain iff it exists.  run_sync is one process: the    *)
(* entry step RunSync covers sync.rs:31-107 (lookups, plan, dry run,       *)
(* confirmation), then each target goes through CreateBackup, Prune and    *)
(* one CopyItem step per plan item (sync_to_target, sync.rs:148-185).      *)
(***************************************************************************)
EXTENDS Integers, Sequences, FiniteSets, TLC

VARIABLES
    fs,         \* the file system: path -> [k, d]
    clock,      \* SystemTime::now() in whole seconds
    runs,       \* invocations of run_sync the operator may still start
    faults,     \* I/O failures the environment may still inject
    mode,       \* the kind of session: which commands the operator may issue
    config,     \* the loaded Config: its profiles and its sync.exclusions
    pc,         \* where run_sync stands: idle, backup, prune, copy
    opts,       \* the SyncOptions of the current (or last) invocation
    targets,    \* run_sync's targets: sequence of profile names
    ti,         \* index in targets of the target being synced
    items,      \* the plan: collect_sync_items' result
    ii,         \* index in items of the next item to copy
    backup_dir, \* create_backup's result for the current target
    result,     \* what run_sync returned: "Ok", "Err" ("-" before any return)
    msg,        \* the last line run_sync printed before it returned
    stdin,      \* the line read_line returned ("unread" when it was not called)
    pre,        \* the file system when the current invocation started
    prevOk,     \* the invocation before the current one printed "Sync complete."
    completed,  \* how many invocations printed "Sync complete."
    call        \* a call of diff_json_objects or read_repo_plugins: arguments, results

vars == <<fs, clock, runs, faults, mode, config, pc, opts, targets, ti, items,
          ii, backup_dir, result, msg, stdin, pre, prevOk, completed, call>>

----------------------------------------------------------------------------
(* Bounds of the model *)

MaxTs == 2          \* timestamps are 0..MaxTs
StartClock == 1     \* the clock of the initial state
MaxFaults == 1      \* I/O failures injected per behaviour
MaxRetention == 2   \* backup_retention is 0..MaxRetention
MaxRuns == 3        \* invocations per behaviour of SpecRepeat

Timestamps == 0 .. MaxTs

----------------------------------------------------------------------------
(* Program constants *)

SYNC_ITEMS ==
    <<"plugins", "repositories", "signatures", "themes", "snippets", "types",
      "settings.json", "startup.py", "keybindings.json">>

BACKUP_PREFIX == ".bn-loader-backup-"

default_exclusions ==
    <<"license.dat", "license.txt", "user.id", "keychain/", "__pycache__/", "*.pyc">>

\* config.profiles: profile name -> config_dir
Profiles == {"p1", "p2", "p3"}
config_dir == [p \in Profiles |-> <<"home", p>>]

\* config.sync.exclusions when the field is absent (serde default)
config_sync_exclusions == default_exclusions

\* the Config of a file that names every profile and whose [sync] section
\* sets no exclusions (a file without [sync] section has none: <<>>)
DefaultConfig == [profiles |-> Profiles, sync_exclusions |-> config_sync_exclusions]

----------------------------------------------------------------------------
(* The file system *)

File(x) == [k |-> "file", d |-> x]
DirNode == [k |-> "dir", d |-> 0]

IsPrefix(p, q) == Len(p) <= Len(q) /\ SubSeq(q, 1, Len(p)) = p

Exists(f, p) == p \in DOMAIN f
IsDir(f, p) == p \in DOMAIN f /\ f[p].k = "dir"
FileName(p) == p[Len(p)]
Join(p, name) == Append(p, name)

\* fs::read_dir: the paths of the immediate entries of directory p
ReadDir(f, p) == {q \in DOMAIN f : Len(q) = Len(p) + 1 /\ IsPrefix(p, q)}

\* fs::remove_dir_all: p and everything below it
RemoveDirAll(f, p) == [q \in {r \in DOMAIN f : ~IsPrefix(p, r)} |-> f[q]]

\* fs::create_dir_all: p and every missing ancestor become directories
CreateDirAll(f, p) ==
    LET missing == {SubSeq(p, 1, n) : n \in 1 .. Len(p)} \ DOMAIN f
    IN  [q \in missing |-> DirNode] @@ f

\* fs::copy: the destination is opened with create+truncate, then the
\* source's bytes are read into it (a file copied onto itself ends empty)
FsCopy(f, src, dst) ==
    LET opened == (dst :> File(0)) @@ f
    IN  (dst :> File(opened[src].d)) @@ opened

\* The content below p, with p cut off the paths: what two trees are
\* compared by.  The empty path stands for p itself.
Subtree(f, p) ==
    [r \in {SubSeq(q, Len(p) + 1, Len(q)) : q \in {q \in DOMAIN f : IsPrefix(p, q)}}
        |-> f[p \o r]]

----------------------------------------------------------------------------
(* copy_dir_recursive *)

RECURSIVE CopyDirRecursive(_, _, _)
RECURSIVE CopyEntries(_, _, _)

\* the loop over read_dir(src): every entry still to copy goes to dst
CopyEntries(f, entries, dst) ==
    IF entries = {} THEN f
    ELSE LET src_path == CHOOSE e \in entries : TRUE
             dst_path == Join(dst, FileName(src_path))
             copied == IF IsDir(f, src_path)
                       THEN CopyDirRecursive(f, src_path, dst_path)
                       ELSE FsCopy(f, src_path, dst_path)
         IN  CopyEntries(copied, entries \ {src_path}, dst)

\* Mutant: the existing destination is not removed first (a merge)
CopyDirRecursive_merge(f, src, dst) ==
    LET created == CreateDirAll(f, dst)
    IN  CopyEntries(created, ReadDir(created, src), dst)

\* if dst exists it is removed; dst is created; src is listed and copied
CopyDirRecursive(f, src, dst) ==
    LET removed == IF Exists(f, dst) THEN RemoveDirAll(f, dst) ELSE f
        created == CreateDirAll(removed, dst)
    IN  CopyEntries(created, ReadDir(created, src), dst)

\* The places copy_dir_recursive can return an error from, and what it
\* leaves behind: "remove" (remove_dir_all fails, nothing changed),
\* "create" (dst removed, not recreated), "read" (dst recreated, empty).
CopyDirStages(f, dst) ==
    (IF Exists(f, dst) THEN {"remove"} ELSE {}) \cup {"create", "read"}

CopyDirRecursiveFailed(f, src, dst, stage) ==
    LET removed == IF Exists(f, dst) THEN RemoveDirAll(f, dst) ELSE f
    IN  CASE stage = "remove" -> f
          [] stage = "create" -> removed
          [] OTHER            -> CreateDirAll(removed, dst)

\* One item of the plan goes from `from` to `to`: a directory by
\* copy_dir_recursive, a file by create_dir_all(parent) and fs::copy
CopyOne(f, from, to) ==
    IF IsDir(f, from)
    THEN CopyDirRecursive(f, from, to)
    ELSE FsCopy(CreateDirAll(f, SubSeq(to, 1, Len(to) - 1)), from, to)

----------------------------------------------------------------------------
(* Exclusion patterns *)

\* Glob::new: the patterns of the model that do not compile
GlobInvalid(pattern) == pattern \in {"[", "a[b"}

\* GlobSet::is_match on a catalog name: a pattern without wildcard matches
\* the name equal to it, "*.json" and "*.py*" match by suffix
GlobMatch(pattern, name) ==
    CASE pattern = "*.json" -> name \in {"settings.json", "keybindings.json"}
      [] pattern = "*.pyc"  -> FALSE
      [] pattern = "*"      -> TRUE
      [] OTHER              -> name = pattern

SeqToSet(s) == {s[i] : i \in 1 .. Len(s)}

\* Mutant: a pattern that does not compile is skipped
build_glob_set_skips_invalid(patterns) == FALSE

\* build_glob_set: an error iff one pattern does not compile
build_glob_set_fails(patterns) == \E p \in SeqToSet(patterns) : GlobInvalid(p)

is_match(patterns, name) == \E p \in SeqToSet(patterns) : GlobMatch(p, name)

\* Mutant: the plan comes out sorted by name
collect_sync_items_sorted(f, source_dir, exclusions) ==
    SelectSeq(<<"keybindings.json", "plugins", "repositories", "settings.json",
                "signatures", "snippets", "startup.py", "themes", "types">>,
              LAMBDA item_name : /\ Exists(f, Join(source_dir, item_name))
                                 /\ ~is_match(exclusions, item_name))

\* collect_sync_items: the catalog names that exist in the source and match
\* no exclusion, in catalog order
collect_sync_items(f, source_dir, exclusions) ==
    SelectSeq(SYNC_ITEMS,
              LAMBDA item_name : /\ Exists(f, Join(source_dir, item_name))
                                 /\ ~is_match(exclusions, item_name))

----------------------------------------------------------------------------
(* create_backup *)

\* format!("{timestamp}")
U64ToString(n) == <<"0", "1", "2", "3", "4", "5", "6", "7", "8", "9">>[n + 1]

\* the suffixes of the names of the model that start with BACKUP_PREFIX
Suffixes == {U64ToString(n) : n \in 0 .. 9} \cup {"01", "+1", "old", ""}

\* str::parse::<u64>: -1 stands for Err
ParseU64(s) ==
    CASE s \in {"01", "+1"} -> 1
      [] s \in {"old", ""}  -> -1
      [] OTHER              -> CHOOSE n \in 0 .. 9 : U64ToString(n) = s

backup_name(timestamp) == BACKUP_PREFIX \o U64ToString(timestamp)

items_to_backup(f, dir, its) ==
    SelectSeq(its, LAMBDA item : Exists(f, Join(dir, item)))

\* Mutant: the loop stops after the first item
BackupItems_first(f, todo, n, dir, dest_dir) ==
    IF n = 0 THEN f
    ELSE CopyOne(f, Join(dir, todo[1]), Join(dest_dir, todo[1]))

\* the loop of create_backup over the first n items to back up
RECURSIVE BackupItems(_, _, _, _, _)
BackupItems(f, todo, n, dir, dest_dir) ==
    IF n = 0 THEN f
    ELSE LET done == BackupItems(f, todo, n - 1, dir, dest_dir)
         IN  CopyOne(done, Join(dir, todo[n]), Join(dest_dir, todo[n]))

\* Mutant: the emptiness test is inverted
create_backup_inverted(f, dir, its, now) ==
    LET todo == items_to_backup(f, dir, its)
        dest_dir == Join(dir, backup_name(now))
    IN  IF todo # <<>>
        THEN [fs |-> f, ret |-> "None"]
        ELSE [fs |-> CreateDirAll(f, dest_dir), ret |-> backup_name(now)]

\* Mutant: no early return when nothing is to be backed up
create_backup_always(f, dir, its, now) ==
    LET todo == items_to_backup(f, dir, its)
        dest_dir == Join(dir, backup_name(now))
    IN  [fs  |-> BackupItems(CreateDirAll(f, dest_dir), todo, Len(todo), dir, dest_dir),
         ret |-> backup_name(now)]

\* create_backup: [fs, ret], ret "None" or the name of the snapshot
create_backup(f, dir, its, now) ==
    LET todo == items_to_backup(f, dir, its)
        dest_dir == Join(dir, backup_name(now))
    IN  IF todo = <<>>
        THEN [fs |-> f, ret |-> "None"]
        ELSE [fs  |-> BackupItems(CreateDirAll(f, dest_dir), todo, Len(todo),
                                  dir, dest_dir),
              ret |-> backup_name(now)]

\* create_backup returning an error: create_dir_all failed (n = 0), or the
\* copy of the n-th item failed after the n-1 items before it were copied
create_backup_failed(f, dir, its, now, n) ==
    LET todo == items_to_backup(f, dir, its)
        dest_dir == Join(dir, backup_name(now))
    IN  IF n = 0 THEN f
        ELSE BackupItems(CreateDirAll(f, dest_dir), todo, n - 1, dir, dest_dir)

----------------------------------------------------------------------------
(* cleanup_old_backups *)

\* the entries of target_dir that are directories, start with BACKUP_PREFIX
\* and whose suffix parses as u64
Backups(f, target_dir) ==
    {e \in ReadDir(f, target_dir) :
        /\ IsDir(f, e)
        /\ \E s \in Suffixes : FileName(e) = BACKUP_PREFIX \o s /\ ParseU64(s) >= 0}

BackupTimestamp(e) ==
    ParseU64(CHOOSE s \in Suffixes : FileName(e) = BACKUP_PREFIX \o s)

\* sort_by newest first: every order of the backups that is descending in
\* the timestamp (read_dir's order decides between equal timestamps)
SortedBackups(f, target_dir) ==
    LET B == Backups(f, target_dir)
    IN  {s \in [1 .. Cardinality(B) -> B] :
            /\ \A i, j \in DOMAIN s : i < j =>
                  s[i] # s[j] /\ BackupTimestamp(s[i]) >= BackupTimestamp(s[j])}

\* into_iter().skip(retention)
Skip(s, n) == IF n >= Len(s) THEN <<>> ELSE SubSeq(s, n + 1, Len(s))

\* the removal loop: the snapshots of `doomed` not in `failing` are removed
RECURSIVE RemoveAll(_, _)
RemoveAll(f, paths) ==
    IF paths = {} THEN f
    ELSE LET p == CHOOSE p \in paths : TRUE
         IN  RemoveAll(RemoveDirAll(f, p), paths \ {p})

cleanup_old_backups(f, sorted, retention, failing) ==
    RemoveAll(f, SeqToSet(Skip(sorted, retention)) \ failing)

----------------------------------------------------------------------------
(* Inputs *)

\* what read_line may return
Inputs == {"y\n", " Y \n", "n\n", "\n", "yes\n"}

\* str::trim
Trim(input) ==
    CASE input = "y\n"   -> "y"
      [] input = " Y \n" -> "Y"
      [] input = "n\n"   -> "n"
      [] input = "yes\n" -> "yes"
      [] OTHER           -> ""

\* Mutant: anything but "n" counts as yes
Affirmative_lenient(input) == Trim(input) # "n"

\* Mutant: the dry-run flag is not looked at
DryRun_ignored(o) == FALSE

\* str::eq_ignore_ascii_case
EqIgnoreAsciiCase(a, b) ==
    LET lower(x) == IF x = "Y" THEN "y" ELSE x IN lower(a) = lower(b)

\* sync.rs:103: input.trim().eq_ignore_ascii_case("y")
Affirmative(input) == EqIgnoreAsciiCase(Trim(input), "y")

\* sync.rs:89: if options.dry_run
DryRun(o) == o.dry_run

\* The SyncOptions the operator may pass in a session of each kind.
\* Option<&str>: <<>> is None, <<name>> is Some(name)
Commands(m) ==
    IF m = "repeat"
    THEN [from : {"p1"},
          to : {<<"p2">>},
          extra_exclusions : {<<>>},
          dry_run : {FALSE},
          yes : {TRUE},
          backup_retention : 0 .. MaxRetention]
    ELSE IF m = "plan"
    THEN [from : {"p1", "nope"},
          to : {<<>>, <<"p2">>, <<"nope">>},
          extra_exclusions : {<<>>, <<"[">>, <<"*.json">>, <<"plugins">>},
          dry_run : {FALSE},
          yes : {TRUE},
          backup_retention : {0, 1}]
    ELSE IF m = "frame"
    THEN [from : {"p1"},
          to : {<<"p2">>},
          extra_exclusions : {<<>>},
          dry_run : {FALSE},
          yes : {TRUE},
          backup_retention : 0 .. MaxRetention]
    ELSE [from : {"p1"},
          to : {<<>>, <<"p1">>, <<"p2">>},
          extra_exclusions : {<<>>},
          dry_run : BOOLEAN,
          yes : BOOLEAN,
          backup_retention : 0 .. MaxRetention]

\* no call of diff_json_objects or read_repo_plugins is under way
NoCall == [fn |-> "none"]

NoCommand ==
    [from |-> "", to |-> <<>>, extra_exclusions |-> <<>>, dry_run |-> FALSE,
     yes |-> FALSE, backup_retention |-> 0]

\* every order of the elements of S (HashMap::iter has no fixed order)
Perms(S) ==
    {s \in [1 .. Cardinality(S) -> S] : \A i, j \in DOMAIN s : i # j => s[i] # s[j]}

----------------------------------------------------------------------------
(* Initial states *)

EmptyFs == [q \in {} |-> DirNode]

\* what a configuration directory may hold in the initial state
SettingsOnly == (<<"settings.json">> :> File(1))

PluginsAndSettings ==
    (<<"plugins">> :> DirNode) @@ (<<"plugins", "a.py">> :> File(1))
       @@ (<<"settings.json">> :> File(2))

NestedPlugins ==
    (<<"plugins">> :> DirNode) @@ (<<"plugins", "a.py">> :> File(2))
       @@ (<<"plugins", "lib">> :> DirNode)
       @@ (<<"plugins", "lib", "b.py">> :> File(1))

Samples == {EmptyFs, SettingsOnly, PluginsAndSettings, NestedPlugins}

\* a source with two items whose catalog order is not the alphabetical one,
\* and a file that is no catalog item
TypesAndSettings ==
    (<<"types">> :> DirNode) @@ (<<"types", "t.json">> :> File(1))
       @@ (<<"settings.json">> :> File(2)) @@ (<<"license.dat">> :> File(1))

\* what a snapshot left by an earlier sync holds
OldSnapshot ==
    (<<"plugins">> :> DirNode) @@ (<<"plugins", "old.py">> :> File(1))
       @@ (<<"settings.json">> :> File(1))

\* tree placed at path `at` of f (at becomes a directory)
Graft(f, at, tree) ==
    [q \in {at \o r : r \in DOMAIN tree} |-> tree[SubSeq(q, Len(at) + 1, Len(q))]]
       @@ CreateDirAll(f, at)

RECURSIVE GraftAll(_, _)
GraftAll(f, mounts) ==
    IF mounts = {} THEN f
    ELSE LET m == CHOOSE m \in mounts : TRUE
         IN  GraftAll(Graft(f, m.at, m.tree), mounts \ {m})

\* every profile p holds content[p], and one old snapshot per timestamp of hist[p]
InitFs(content, hist) ==
    GraftAll(EmptyFs,
             {[at |-> config_dir[p], tree |-> content[p]] : p \in Profiles}
             \cup {[at |-> Join(config_dir[p], backup_name(t)), tree |-> OldSnapshot] :
                     p \in Profiles, t \in hist})

InitWith(m, n, now, contents, hists, configs) ==
    /\ \E content \in contents, hist \in hists : fs = InitFs(content, hist)
    /\ config \in configs
    /\ clock = now
    /\ mode = m
    /\ runs = n
    /\ faults = MaxFaults
    /\ pc = "idle"
    /\ opts = NoCommand
    /\ targets = <<>>
    /\ ti = 0
    /\ items = <<>>
    /\ ii = 0
    /\ backup_dir = "unset"
    /\ result = "-"
    /\ msg = ""
    /\ stdin = "unread"
    /\ pre = fs
    /\ prevOk = FALSE
    /\ completed = 0
    /\ call = NoCall

\* the snapshots an earlier session may have left: none, one old one, or
\* one at every timestamp
Histories == {{}, {0}, Timestamps}

\* one invocation, from any initial content
Init ==
    InitWith("any", 1, StartClock, [Profiles -> Samples], Histories, {DefaultConfig})

\* the same command MaxRuns times, from a source that holds items
InitRepeat ==
    InitWith("repeat", MaxRuns, 0,
             {c \in [Profiles -> Samples] :
                 c["p1"] \in {PluginsAndSettings, NestedPlugins} /\ c["p3"] = EmptyFs},
             Histories, {DefaultConfig})

\* the Config files of the sessions that vary the plan: one, two or three
\* profiles; sync.exclusions left to its default, empty, naming an item, or
\* holding a pattern that does not compile
Configs ==
    [profiles : {{"p1"}, {"p1", "p2"}, Profiles},
     sync_exclusions : {config_sync_exclusions, <<>>, <<"settings.json">>, <<"a[b">>}]

\* one invocation with --yes, from any of these Configs
InitPlan ==
    InitWith("plan", 1, StartClock,
             {c \in [Profiles -> Samples \cup {TypesAndSettings}] :
                 /\ c["p1"] \in {PluginsAndSettings, TypesAndSettings}
                 /\ c["p2"] \in {EmptyFs, PluginsAndSettings}
                 /\ c["p3"] = SettingsOnly},
             {{}, {0}}, Configs)

\* what else a target may hold: an excluded file, a catalog item the source
\* does not have, a file outside the catalog
OddEntries ==
    (<<"license.dat">> :> File(3)) @@ (<<"notes.txt">> :> File(1))
       @@ (<<"themes">> :> DirNode) @@ (<<"themes", "dark.theme">> :> File(1))

\* the suffixes of the directories with the backup prefix a target may
\* hold: an older timestamp, the clock's, a later one, and two that
\* create_backup never writes
OddSuffixes == {U64ToString(0), U64ToString(StartClock), U64ToString(MaxTs), "+1", "old"}

\* tree, with a directory holding OldSnapshot per suffix
WithSnapshots(tree, suffixes) ==
    GraftAll(tree, {[at |-> <<BACKUP_PREFIX \o s>>, tree |-> OldSnapshot] : s \in suffixes})

FrameTargets ==
    {WithSnapshots(tree, suffixes) :
        tree \in {SettingsOnly, SettingsOnly @@ OddEntries}, suffixes \in SUBSET OddSuffixes}

\* one invocation with --yes onto p2, which holds any of FrameTargets
InitFrame ==
    InitWith("frame", 1, StartClock,
             {[p \in Profiles |-> CASE p = "p1" -> source
                                    [] p = "p2" -> target
                                    [] OTHER    -> EmptyFs] :
                 source \in {PluginsAndSettings, TypesAndSettings}, target \in FrameTargets},
             {{}}, {DefaultConfig})

----------------------------------------------------------------------------
(* run_sync *)

Return(res, m) ==
    /\ pc' = "idle"
    /\ result' = res
    /\ msg' = m

\* Mutant: the source profile is not filtered out of the fan-out
TargetChoices_all(o) ==
    IF o.to # <<>> THEN {o.to} ELSE Perms(config.profiles)

\* the targets run_sync computes: <<to>>, or the other profiles in some order
TargetChoices(o) ==
    IF o.to # <<>> THEN {o.to} ELSE Perms(config.profiles \ {o.from})

\* Mutant: patterns on the command line replace the other layers
Exclusions_cli_replaces(o) ==
    IF o.extra_exclusions # <<>>
    THEN o.extra_exclusions
    ELSE default_exclusions \o config.sync_exclusions

\* sync.rs:56-61: the defaults, then the configuration's, then the command line's
Exclusions(o) == default_exclusions \o config.sync_exclusions \o o.extra_exclusions

\* sync.rs:31-107: up to the confirmation.  An early return is one step.
\* A repeated invocation repeats the command, `elapsed` seconds later.
RunSync(o, input, elapsed) ==
    /\ pc = "idle"
    /\ runs > 0
    /\ result # "-" => o = opts
    /\ result = "-" => elapsed = 0
    /\ clock + elapsed <= MaxTs
    /\ clock' = clock + elapsed
    /\ runs' = runs - 1
    /\ opts' = o
    /\ pre' = fs
    /\ prevOk' = (result = "Ok" /\ msg = "Sync complete.")
    /\ UNCHANGED <<fs, faults, mode, config, completed, call>>
    /\ backup_dir' = "unset"
    /\ IF o.from \notin config.profiles
       THEN /\ Return("Err", "Source profile not found")
            /\ targets' = <<>> /\ items' = <<>> /\ ti' = 0 /\ ii' = 0
            /\ stdin' = "unread"
       ELSE IF o.to # <<>> /\ o.to[1] \notin config.profiles
       THEN /\ Return("Err", "Target profile not found")
            /\ targets' = <<>> /\ items' = <<>> /\ ti' = 0 /\ ii' = 0
            /\ stdin' = "unread"
       ELSE \E tg \in TargetChoices(o) :
            LET plan == collect_sync_items(fs, config_dir[o.from], Exclusions(o))
            IN  /\ targets' = tg
                /\ IF tg = <<>>
                   THEN /\ Return("Err", "No target profiles to sync to")
                        /\ items' = <<>> /\ ti' = 0 /\ ii' = 0
                        /\ stdin' = "unread"
                   ELSE IF build_glob_set_fails(Exclusions(o))
                   THEN /\ Return("Err", "Invalid glob pattern")
                        /\ items' = <<>> /\ ti' = 0 /\ ii' = 0
                        /\ stdin' = "unread"
                   ELSE /\ items' = plan
                        /\ stdin' = IF plan # <<>> /\ ~DryRun(o) /\ ~o.yes
                                     THEN input ELSE "unread"
                        /\ IF plan = <<>>
                           THEN Return("Ok", "No items to sync.") /\ ti' = 0 /\ ii' = 0
                           ELSE IF DryRun(o)
                           THEN Return("Ok", "[Dry run] No changes made.")
                                /\ ti' = 0 /\ ii' = 0
                           ELSE IF ~o.yes /\ ~Affirmative(input)
                           THEN Return("Ok", "Aborted.") /\ ti' = 0 /\ ii' = 0
                           ELSE /\ pc' = "backup"
                                /\ ti' = 1
                                /\ ii' = 1
                                /\ result' = "-"
                                /\ msg' = "Syncing"

----------------------------------------------------------------------------
(* sync_to_target *)

\* where an item copy can fail, and what the failure leaves behind: for a
\* directory the stages of copy_dir_recursive; for a file "open" (nothing
\* changed) and "write" (the destination was truncated, nothing written)
CopyOneStages(f, from, to) ==
    IF IsDir(f, from) THEN CopyDirStages(f, to) ELSE {"open", "write"}

CopyOneFailed(f, from, to, stage) ==
    IF IsDir(f, from)
    THEN CopyDirRecursiveFailed(f, from, to, stage)
    ELSE IF stage = "write" THEN (to :> File(0)) @@ f ELSE f

source_dir == config_dir[opts.from]
target_dir == config_dir[targets[ti]]

\* Mutant: the copies start right after the backup
StageAfterBackup_copy == "copy"

\* the order of the steps of sync_to_target
StageAfterBackup == "prune"
StageAfterPrune == "copy"

Goto(stage) ==
    /\ pc' = stage
    /\ UNCHANGED <<result, msg, ti, ii, completed>>

\* Mutant: the error is reported and the loop goes on to the next target
Abort_continue(m) ==
    IF ti < Len(targets)
    THEN /\ pc' = "backup"
         /\ result' = "Err"
         /\ msg' = m
         /\ ti' = ti + 1
         /\ ii' = 1
         /\ backup_dir' = "unset"
         /\ UNCHANGED completed
    ELSE /\ Return("Err", m)
         /\ UNCHANGED <<ti, ii, completed, backup_dir>>

\* the ? of sync.rs:115, 157, 164, 172, 176, 179: the error of one target
\* is the error run_sync returns
Abort(m) ==
    /\ Return("Err", m)
    /\ UNCHANGED <<ti, ii, completed, backup_dir>>

\* Mutant: the error of create_backup is dropped
BackupFailed_ignored ==
    /\ Goto(StageAfterBackup)
    /\ UNCHANGED backup_dir

\* sync.rs:157: the ? on create_backup's result
BackupFailed == Abort("Failed to backup")

\* the end of sync_to_target: the loop of run_sync goes to the next target,
\* or run_sync prints "Sync complete." and returns Ok
TargetDone ==
    IF ti < Len(targets)
    THEN /\ pc' = "backup"
         /\ ti' = ti + 1
         /\ ii' = 1
         /\ backup_dir' = "unset"
         /\ UNCHANGED <<result, msg, completed>>
    ELSE /\ Return("Ok", "Sync complete.")
         /\ completed' = completed + 1
         /\ UNCHANGED <<ti, ii, backup_dir>>

\* sync.rs:157: let backup_dir = create_backup(target_dir, items)?
CreateBackup ==
    /\ pc = "backup"
    /\ UNCHANGED <<clock, runs, mode, config, opts, targets, items, stdin, pre,
                   prevOk, call>>
    /\ \E n \in -1 .. Len(items_to_backup(fs, target_dir, items)) :
          IF n = -1
          THEN LET r == create_backup(fs, target_dir, items, clock)
               IN  /\ fs' = r.fs
                   /\ backup_dir' = r.ret
                   /\ UNCHANGED faults
                   /\ Goto(StageAfterBackup)
          ELSE /\ faults > 0
               /\ items_to_backup(fs, target_dir, items) # <<>>
               /\ fs' = create_backup_failed(fs, target_dir, items, clock, n)
               /\ faults' = faults - 1
               /\ BackupFailed

\* Mutant: cleanup_old_backups is called whatever the retention
PruneEnabled_always(retention) == TRUE

\* sync.rs:163: if backup_retention > 0
PruneEnabled(retention) == retention > 0

\* sync.rs:163-165: if backup_retention > 0 { cleanup_old_backups(..)? }
Prune ==
    /\ pc = "prune"
    /\ UNCHANGED <<clock, runs, mode, config, opts, targets, items, stdin, pre,
                   prevOk, call>>
    /\ IF PruneEnabled(opts.backup_retention)
       THEN \E listed \in BOOLEAN :
               IF listed
               THEN \E sorted \in SortedBackups(fs, target_dir) :
                    \E failing \in SUBSET SeqToSet(Skip(sorted, opts.backup_retention)) :
                       /\ Cardinality(failing) <= faults
                       /\ fs' = cleanup_old_backups(fs, sorted, opts.backup_retention,
                                                    failing)
                       /\ faults' = faults - Cardinality(failing)
                       /\ UNCHANGED backup_dir
                       /\ Goto(StageAfterPrune)
               ELSE /\ faults > 0
                    /\ faults' = faults - 1
                    /\ UNCHANGED fs
                    /\ Abort("Failed to read directory for backup cleanup")
       ELSE /\ UNCHANGED <<fs, faults, backup_dir>>
            /\ Goto(StageAfterPrune)

\* sync.rs:167-182: one turn of the loop over the items
CopyItem ==
    /\ pc = "copy"
    /\ UNCHANGED <<clock, runs, mode, config, opts, targets, items, stdin, pre,
                   prevOk, call>>
    /\ LET source_path == Join(source_dir, items[ii])
           target_path == Join(target_dir, items[ii])
       IN  \E stage \in {"ok"} \cup CopyOneStages(fs, source_path, target_path) :
              IF stage = "ok"
              THEN /\ fs' = CopyOne(fs, source_path, target_path)
                   /\ UNCHANGED faults
                   /\ IF ii < Len(items)
                      THEN /\ ii' = ii + 1
                           /\ UNCHANGED <<pc, result, msg, ti, completed, backup_dir>>
                      ELSE TargetDone
              ELSE /\ faults > 0
                   /\ fs' = CopyOneFailed(fs, source_path, target_path, stage)
                   /\ faults' = faults - 1
                   /\ Abort("Failed to copy")

\* the operator starts run_sync
Invoke ==
    /\ pc = "idle"
    /\ runs > 0
    /\ \E o \in Commands(mode), input \in Inputs, elapsed \in 0 .. 1 :
          RunSync(o, input, elapsed)

Next ==
    \/ Invoke
    \/ CreateBackup
    \/ Prune
    \/ CopyItem

Spec == Init /\ [][Next]_vars

SpecRepeat == InitRepeat /\ [][Next]_vars

SpecPlan == InitPlan /\ [][Next]_vars

SpecFrame == InitFrame /\ [][Next]_vars

----------------------------------------------------------------------------
(* Properties *)

CatalogNames == SeqToSet(SYNC_ITEMS)

\* the catalog items of a configuration directory, each with all below it
ItemsOf(f, dir) == [i \in CatalogNames |-> Subtree(f, Join(dir, i))]

TargetDir(j) == config_dir[targets[j]]

SyncComplete == pc = "idle" /\ result = "Ok" /\ msg = "Sync complete."

\* the snapshot create_backup returned for the current target
SnapshotDir == Join(target_dir, backup_dir)

\* the response is "y" or "Y" with blanks around it
IsYes(input) == input \in {"y\n", " Y \n"}

\* C1: for every target, create_backup has returned successfully before the
\* first copy into that target starts (the items of the target are
\* untouched during the backup and prune steps), and if create_backup
\* fails no item of that target is overwritten.
C1_BackupBeforeCopy ==
    /\ pc = "copy" => backup_dir # "unset"
    /\ pc \in {"backup", "prune"} =>
          ItemsOf(fs, target_dir) = ItemsOf(pre, target_dir)
    /\ (pc = "idle" /\ msg = "Failed to backup") =>
          ItemsOf(fs, target_dir) = ItemsOf(pre, target_dir)

\* a snapshot exists and the first copy into the target is about to start
C1_Witness ==
    /\ pc = "copy"
    /\ ii = 1
    /\ backup_dir \notin {"unset", "None"}
    /\ IsDir(fs, SnapshotDir)

\* a snapshot of the current target is removed by this step
SnapshotRemoved == Backups(fs, target_dir) \ Backups(fs', target_dir) # {}

Synced(j) ==
    \A item \in SeqToSet(items) :
        Subtree(fs, Join(TargetDir(j), item)) = Subtree(fs, Join(source_dir, item))

C4_RetentionBound ==
    (/\ SyncComplete
     /\ completed = MaxRuns - runs
     /\ faults = MaxFaults
     /\ 0 < opts.backup_retention
     /\ opts.backup_retention < completed) =>
        /\ Cardinality(Backups(fs, target_dir)) = opts.backup_retention
        /\ \A kept \in Backups(fs, target_dir) :
           \A gone \in Backups(pre, target_dir) \ Backups(fs, target_dir) :
               BackupTimestamp(kept) >= BackupTimestamp(gone)

\* C5: syncing the same unchanged source to the same target again yields a
\* backup that holds every item of the plan as the target held it after the
\* sync before, and leaves the items of the target as they were.
C5_IdempotentResync ==
    /\ (pc = "prune" /\ prevOk) =>
          /\ backup_dir \notin {"unset", "None"}
          /\ \A item \in SeqToSet(items) :
                Subtree(fs, Join(SnapshotDir, item)) = Subtree(pre, Join(target_dir, item))
    /\ (SyncComplete /\ prevOk) =>
          /\ ItemsOf(fs, source_dir) = ItemsOf(pre, source_dir)
          /\ ItemsOf(fs, target_dir) = ItemsOf(pre, target_dir)

\* the second of two complete syncs has ended, its snapshot is there
C5_Witness ==
    /\ SyncComplete
    /\ prevOk
    /\ completed = 2
    /\ IsDir(fs, SnapshotDir)
    /\ Exists(fs, Join(SnapshotDir, "plugins"))

\* the sync to target j has ended in success
Finished(j) == j < ti \/ (j = ti /\ SyncComplete)

\* C6: after a successful sync to a target, every item of the plan in the
\* target equals the item of the source: same entries, same content, and
\* nothing of the target's old copy survives.
C6_TargetEqualsSource ==
    \A j \in 1 .. Len(targets) :
        Finished(j) =>
            /\ Synced(j)
            /\ targets[j] # opts.from =>
                  \A item \in SeqToSet(items) :
                      Subtree(fs, Join(TargetDir(j), item))
                         = Subtree(pre, Join(source_dir, item))

\* the target held plugins/lib/b.py, the source does not: it is gone
C6_Witness ==
    /\ SyncComplete
    /\ targets = <<"p2">>
    /\ Exists(pre, <<"home", "p2", "plugins", "lib", "b.py">>)
    /\ ~Exists(fs, <<"home", "p2", "plugins", "lib", "b.py">>)
    /\ Exists(fs, <<"home", "p2", "plugins", "a.py">>)

\* at least one item of the plan was in the target before the sync
SomeItemExisted == \E item \in SeqToSet(items) : Exists(pre, Join(target_dir, item))

\* C7: create_backup returns a snapshot directory iff at least one item of
\* the plan exists in the target; when none exists it returns None and
\* the target directory is as before.
C7_BackupIffItemExists ==
    pc = "prune" =>
        /\ backup_dir # "unset"
        /\ backup_dir # "None" <=> SomeItemExisted
        /\ backup_dir # "None" => IsDir(fs, SnapshotDir)
        /\ backup_dir = "None" => Subtree(fs, target_dir) = Subtree(pre, target_dir)

\* first sync to a target with none of the items: no snapshot
C7_Witness ==
    /\ pc = "prune"
    /\ backup_dir = "None"
    /\ Backups(fs, target_dir) = {}
    /\ items # <<>>

C9_DryRunNoMutation ==
    opts.dry_run => (pc = "idle" /\ fs = pre /\ result # "Err")

\* a dry run over a plan whose real run would back up and copy
C9_Witness ==
    /\ opts.dry_run
    /\ msg = "[Dry run] No changes made."
    /\ opts.backup_retention > 0
    /\ items = <<"plugins", "settings.json">>
    /\ targets = <<"p2">>
    /\ Exists(fs, <<"home", "p2", "settings.json">>)

\* C10: without --yes nothing is changed before an affirmative response,
\* and a response that is not affirmative ends run_sync with Ok and the
\* file system unchanged.
C10_ConfirmationGate ==
    (~opts.yes /\ opts.from # "") =>
        /\ (fs # pre \/ pc # "idle") => IsYes(stdin)
        /\ (stdin # "unread" /\ ~IsYes(stdin)) =>
              pc = "idle" /\ result = "Ok" /\ msg = "Aborted." /\ fs = pre

\* the operator answered "yes": not the letter y, so nothing happened
C10_Witness ==
    /\ ~opts.yes
    /\ stdin = "yes\n"
    /\ msg = "Aborted."
    /\ items # <<>>

----------------------------------------------------------------------------
(* Errors before the plan, the plan and the targets *)

\* the command names a profile the Config does not have
UnknownSource(o) == o.from \notin config.profiles
UnknownTarget(o) == o.to # <<>> /\ o.to[1] \notin config.profiles

\* a pattern of the defaults, of the Config or of the command line does not compile
Malformed(o) ==
    \E layer \in {default_exclusions, config.sync_exclusions, o.extra_exclusions} :
        \E p \in SeqToSet(layer) : GlobInvalid(p)

\* C11: a command with an unknown source profile, an unknown target profile
\* or an exclusion pattern that does not compile (whichever layer it comes
\* from) ends in an error, and the file system of every profile is what it
\* was when run_sync was called: nothing was backed up, pruned or copied.
C11_FatalBeforeMutation ==
    (opts # NoCommand /\ (UnknownSource(opts) \/ UnknownTarget(opts) \/ Malformed(opts))) =>
        /\ pc = "idle"
        /\ result = "Err"
        /\ fs = pre
        /\ backup_dir = "unset"
        /\ UnknownSource(opts) => msg = "Source profile not found"
        /\ (~UnknownSource(opts) /\ UnknownTarget(opts)) => msg = "Target profile not found"
        /\ (~UnknownSource(opts) /\ ~UnknownTarget(opts)) =>
              msg \in {"Invalid glob pattern", "No target profiles to sync to"}

\* the Config's pattern does not compile, the command is otherwise one that
\* would have backed up, pruned and copied
C11_Witness ==
    /\ result = "Err"
    /\ msg = "Invalid glob pattern"
    /\ config.sync_exclusions = <<"a[b">>
    /\ opts.extra_exclusions = <<>>
    /\ opts.backup_retention = 1
    /\ Exists(fs, <<"home", "p2", "plugins">>)
    /\ Exists(fs, <<"home", "p2", backup_name(0)>>)

\* run_sync got as far as computing the plan
PlanComputed ==
    /\ opts # NoCommand
    /\ ~UnknownSource(opts) /\ ~UnknownTarget(opts) /\ ~Malformed(opts)
    /\ targets # <<>>

\* a pattern of one of the three layers matches the name
Excluded(name) ==
    \E layer \in {default_exclusions, config.sync_exclusions, opts.extra_exclusions} :
        \E p \in SeqToSet(layer) : GlobMatch(p, name)

CatalogIndex(name) == CHOOSE i \in 1 .. Len(SYNC_ITEMS) : SYNC_ITEMS[i] = name

\* the snapshot directory create_backup writes to at the current target
SnapshotNow == Join(target_dir, backup_name(clock))

\* C14: the plan holds exactly the catalog names that exist under the
\* source directory and match no exclusion pattern, each once and in catalog
\* order; the copies follow that order (while item ii is the next to copy,
\* the items from ii on are still untouched in the target), and so does the
\* backup (when it fails part-way into a new snapshot, the snapshot holds a
\* prefix of the items to back up).
C14_PlanInCatalogOrder ==
    PlanComputed =>
        /\ SeqToSet(items) =
              {n \in CatalogNames : Exists(pre, Join(source_dir, n)) /\ ~Excluded(n)}
        /\ \A i, j \in 1 .. Len(items) :
              i < j => CatalogIndex(items[i]) < CatalogIndex(items[j])
        /\ pc = "copy" =>
              \A j \in ii .. Len(items) :
                  Subtree(fs, Join(target_dir, items[j]))
                      = Subtree(pre, Join(target_dir, items[j]))
        /\ (pc = "idle" /\ msg = "Failed to backup" /\ ~Exists(pre, SnapshotNow)) =>
              LET todo == items_to_backup(pre, target_dir, items)
              IN  \A i, j \in 1 .. Len(todo) :
                      (i < j /\ Exists(fs, Join(SnapshotNow, todo[j])))
                          => Exists(fs, Join(SnapshotNow, todo[i]))

\* a plan of two items whose catalog order is not the alphabetical one, the
\* first copied and the second not yet
C14_Witness ==
    /\ pc = "copy"
    /\ ii = 2
    /\ items = <<"types", "settings.json">>
    /\ Exists(pre, Join(source_dir, "license.dat"))
    /\ Exists(fs, Join(target_dir, "types"))
    /\ ~Exists(fs, Join(target_dir, "settings.json"))

\* C15: the exclusion set in effect is the defaults plus the Config's
\* patterns plus the command line's, so every default is in it whatever the
\* other two layers hold; no item of the plan matches a pattern of any
\* layer, and license.dat is never in the plan.
C15_ExclusionLayers ==
    PlanComputed =>
        /\ SeqToSet(Exclusions(opts)) =
              SeqToSet(default_exclusions) \cup SeqToSet(config.sync_exclusions)
                  \cup SeqToSet(opts.extra_exclusions)
        /\ \A n \in SeqToSet(items) : ~Excluded(n)
        /\ \A n \in CatalogNames :
              (Exists(pre, Join(source_dir, n)) /\ Excluded(n)) => n \notin SeqToSet(items)
        /\ "license.dat" \notin SeqToSet(items)

\* the Config excludes one item of the source, the command line names
\* another pattern, and the source holds a license.dat: the sync completed
\* with neither the excluded item nor license.dat in the plan
C15_Witness ==
    /\ SyncComplete
    /\ config.sync_exclusions = <<"settings.json">>
    /\ opts.extra_exclusions = <<"plugins">>
    /\ Exists(pre, Join(source_dir, "settings.json"))
    /\ Exists(pre, Join(source_dir, "license.dat"))
    /\ items = <<"types">>
    /\ ~Exists(fs, Join(target_dir, "settings.json"))

\* the configured profiles other than the source
OtherProfiles == config.profiles \ {opts.from}

\* C16: without a target name the targets are exactly the configured
\* profiles other than the source, each once, and when there is none
\* run_sync returns an error with the file system untouched; with a target
\* name the one target is that profile.  A sync that completes has gone
\* through every target.
C16_Targets ==
    (opts # NoCommand /\ ~UnknownSource(opts) /\ ~UnknownTarget(opts)) =>
        /\ opts.to = <<>> =>
              /\ SeqToSet(targets) = OtherProfiles
              /\ Len(targets) = Cardinality(OtherProfiles)
              /\ OtherProfiles = {} =>
                    /\ pc = "idle"
                    /\ result = "Err"
                    /\ msg = "No target profiles to sync to"
                    /\ fs = pre
        /\ opts.to # <<>> => targets = opts.to
        /\ SyncComplete => ti = Len(targets)

\* a fan-out over two other profiles that completed, both of them changed
C16_Witness ==
    /\ SyncComplete
    /\ opts.to = <<>>
    /\ config.profiles = Profiles
    /\ Len(targets) = 2
    /\ \A j \in 1 .. 2 : Subtree(fs, TargetDir(j)) # Subtree(pre, TargetDir(j))

----------------------------------------------------------------------------
(* Pruning *)

\* C12 (as stated): no failure of the pruning step aborts the sync: from
\* the prune stage of a target, run_sync always goes on to that target's
\* item copies.
C12_PruneNeverAborts == [][pc = "prune" => pc' = "copy"]_vars

\* C13: with backup_retention = 0 no step of any sync removes a snapshot:
\* every snapshot directory of every profile, whether it was there before or
\* was created by one of the syncs, is still there after the step.
C13_RetentionZeroKeepsAll ==
    [][opts'.backup_retention = 0 =>
          \A p \in Profiles :
              Backups(fs, config_dir[p]) \subseteq Backups(fs', config_dir[p])]_vars

\* several syncs with retention 0 have completed, the last one added a
\* snapshot, and the target holds more snapshots than any retention would keep
C13_Witness ==
    /\ SyncComplete
    /\ opts.backup_retention = 0
    /\ completed >= 2
    /\ Backups(pre, target_dir) # Backups(fs, target_dir)
    /\ Cardinality(Backups(fs, target_dir)) > MaxRetention

----------------------------------------------------------------------------
(* diff.rs: diff_json_objects *)

MaxNum == 1     \* the numbers of the JSON values are 1..MaxNum

MAX_VALUE_DISPLAY_LEN == 30
VALUE_PREVIEW_LEN == 27

\* serde_json::Value
Null == [t |-> "null"]
Bool(b) == [t |-> "bool", b |-> b]
Num(n) == [t |-> "number", n |-> n]
Str(s) == [t |-> "string", s |-> s]
Arr(a) == [t |-> "array", a |-> a]
Obj(o) == [t |-> "object", o |-> o]

\* the key names of the model, in ascending order
KeyNames == <<"a", "b">>
Keys == SeqToSet(KeyNames)

\* a string longer than MAX_VALUE_DISPLAY_LEN, and its prefixes
LongString == "0123456789abcdefghijklmnopqrstuvwxyz"
Prefixes(s) ==
    IF s = LongString
    THEN {"0123456789abcdefghijklmnopq", "0123456789abcdefghijklmnopqrst"}
    ELSE {s}

\* every object whose keys are among Keys and whose values are in V
ObjectsOver(V) == UNION {{Obj(o) : o \in [K -> V]} : K \in SUBSET Keys}

\* values of every kind, and objects of them
Leaves ==
    {Null, Bool(TRUE), Str("s"), Str(LongString), Arr(<<Num(1)>>)}
        \cup {Num(n) : n \in 1 .. MaxNum}
FlatValues == Leaves \cup ObjectsOver(Leaves)

\* objects in objects, over numbers
SmallLeaves == {Num(n) : n \in 1 .. MaxNum}
NestedValues == SmallLeaves \cup ObjectsOver(SmallLeaves \cup ObjectsOver(SmallLeaves))

\* format_value
format_value(v) ==
    CASE v.t = "string" ->
            IF Len(v.s) > MAX_VALUE_DISPLAY_LEN
            THEN "\"" \o (CHOOSE p \in Prefixes(v.s) : Len(p) = VALUE_PREVIEW_LEN)
                      \o "...\""
            ELSE "\"" \o v.s \o "\""
      [] v.t = "array"  -> "[" \o U64ToString(Len(v.a)) \o " items]"
      [] v.t = "object" -> "{" \o U64ToString(Cardinality(DOMAIN v.o)) \o " keys}"
      [] v.t = "number" -> U64ToString(v.n)
      [] v.t = "bool"   -> IF v.b THEN "true" ELSE "false"
      [] OTHER          -> "null"

\* let path = if prefix.is_empty() { key } else { format!("{prefix}.{key}") }
PathOf(prefix, key) == IF prefix = "" THEN key ELSE prefix \o "." \o key

Removed(path) == [kind |-> "Removed", text |-> "- " \o path \o " (only in first)"]
Added(path) == [kind |-> "Added", text |-> "+ " \o path \o " (only in second)"]
Changed(prefix, v1, v2) ==
    [kind |-> "Changed",
     text |-> "~ " \o prefix \o " : " \o format_value(v1) \o " -> " \o format_value(v2)]

\* Mutant: the second loop walks the same difference as the first
AddedKeys_first(keys1, keys2) == keys1 \ keys2

\* Mutant: the keys both objects hold are not compared
CommonKeys_none(keys1, keys2) == {}

\* keys1.difference(&keys2), keys2.difference(&keys1), keys1.intersection(&keys2)
RemovedKeys(keys1, keys2) == keys1 \ keys2
AddedKeys(keys1, keys2) == keys2 \ keys1
CommonKeys(keys1, keys2) == keys1 \cap keys2

\* Mutant: values that are no two objects are always reported
ValuesDiffer_always(v1, v2) == TRUE

\* the guard of the second match arm: v1 != v2
ValuesDiffer(v1, v2) == v1 # v2

\* the entries the first and the second loop push when they visit their
\* keys in the given order
RemovedEntries(order, prefix) ==
    [i \in 1 .. Len(order) |-> Removed(PathOf(prefix, order[i]))]
AddedEntries(order, prefix) ==
    [i \in 1 .. Len(order) |-> Added(PathOf(prefix, order[i]))]

\* diff_json_objects(v1, v2, prefix): the set of the sequences it may
\* return.  A HashSet is iterated in an order that depends on its hasher's
\* random keys, so each of the three loops may visit its keys in any order.
RECURSIVE diff_json_objects(_, _, _)
RECURSIVE CommonEntries(_, _, _, _)

\* the third loop: the diffs of the common keys, appended in visiting order
CommonEntries(o1, o2, order, prefix) ==
    IF order = <<>> THEN {<<>>}
    ELSE LET key == Head(order)
         IN  {h \o tl : h \in diff_json_objects(o1[key], o2[key], PathOf(prefix, key)),
                        tl \in CommonEntries(o1, o2, Tail(order), prefix)}

diff_json_objects(v1, v2, prefix) ==
    IF v1.t = "object" /\ v2.t = "object"
    THEN LET keys1 == DOMAIN v1.o
             keys2 == DOMAIN v2.o
         IN  UNION {{RemovedEntries(removed, prefix) \o AddedEntries(added, prefix)
                        \o common :
                        common \in CommonEntries(v1.o, v2.o, both, prefix)} :
                    removed \in Perms(RemovedKeys(keys1, keys2)),
                    added \in Perms(AddedKeys(keys1, keys2)),
                    both \in Perms(CommonKeys(keys1, keys2))}
    ELSE IF ValuesDiffer(v1, v2)
    THEN {<<Changed(prefix, v1, v2)>>}
    ELSE {<<>>}

\* the variables of the sync engine
SyncVars ==
    <<fs, clock, runs, faults, mode, config, pc, opts, targets, ti, items, ii,
      backup_dir, result, msg, stdin, pre, prevOk, completed>>

\* the sync engine is not running
NoSync ==
    /\ fs = EmptyFs /\ pre = EmptyFs
    /\ clock = 0 /\ runs = 0 /\ faults = 0 /\ mode = "none"
    /\ config = DefaultConfig
    /\ pc = "idle" /\ opts = NoCommand
    /\ targets = <<>> /\ ti = 0 /\ items = <<>> /\ ii = 0
    /\ backup_dir = "unset" /\ result = "-" /\ msg = "" /\ stdin = "unread"
    /\ prevOk = FALSE /\ completed = 0

\* diff_settings has parsed two settings files: any two values
InitDiff ==
    /\ NoSync
    /\ \E pair \in (FlatValues \X FlatValues) \cup (NestedValues \X NestedValues) :
          call = [fn |-> "diff_json_objects", v1 |-> pair[1], v2 |-> pair[2],
                  at |-> "start", first |-> <<>>, second |-> <<>>]

\* diff_json_objects(v1, v2, "")
DiffFirst ==
    /\ call.fn = "diff_json_objects" /\ call.at = "start"
    /\ \E diffs \in diff_json_objects(call.v1, call.v2, "") :
          call' = [call EXCEPT !.at = "first", !.first = diffs]
    /\ UNCHANGED SyncVars

\* then the same call with the arguments swapped: diff_json_objects(v2, v1, "")
DiffSwapped ==
    /\ call.fn = "diff_json_objects" /\ call.at = "first"
    /\ \E diffs \in diff_json_objects(call.v2, call.v1, "") :
          call' = [call EXCEPT !.at = "swapped", !.second = diffs]
    /\ UNCHANGED SyncVars

\* or the same call once more: diff_json_objects(v1, v2, "")
DiffAgain ==
    /\ call.fn = "diff_json_objects" /\ call.at = "first"
    /\ \E diffs \in diff_json_objects(call.v1, call.v2, "") :
          call' = [call EXCEPT !.at = "again", !.second = diffs]
    /\ UNCHANGED SyncVars

NextDiff ==
    \/ DiffFirst
    \/ DiffSwapped
    \/ DiffAgain

SpecDiff == InitDiff /\ [][NextDiff]_vars

\* the paths a key of the model's values can be reported at
Paths == Keys \cup {PathOf(p, k) : p \in Keys, k \in Keys}

\* how many entries of the kind a result holds
CountKind(diffs, kind) == Cardinality({i \in 1 .. Len(diffs) : diffs[i].kind = kind})

\* C17: for any two values A and B and every path p, diff_json_objects(A, B)
\* reports the key at p as Removed if and only if diff_json_objects(B, A)
\* reports it as Added, and the same the other way round; the two results
\* hold as many Removed entries as the other holds Added ones.
C17_AddRemoveSymmetry ==
    (call.fn = "diff_json_objects" /\ call.at = "swapped") =>
        /\ \A p \in Paths :
              /\ Removed(p) \in SeqToSet(call.first) <=> Added(p) \in SeqToSet(call.second)
              /\ Added(p) \in SeqToSet(call.first) <=> Removed(p) \in SeqToSet(call.second)
        /\ CountKind(call.first, "Removed") = CountKind(call.second, "Added")
        /\ CountKind(call.first, "Added") = CountKind(call.second, "Removed")
        /\ CountKind(call.first, "Changed") = CountKind(call.second, "Changed")

\* two objects that differ by a key at the top and by a key one level down
C17_Witness ==
    /\ call.fn = "diff_json_objects" /\ call.at = "swapped"
    /\ Removed("a.b") \in SeqToSet(call.first)
    /\ Added("a.b") \in SeqToSet(call.second)
    /\ Added("b") \in SeqToSet(call.first)
    /\ Removed("b") \in SeqToSet(call.second)

\* C18: diff_json_objects(A, A) returns the empty sequence, whatever A is:
\* null, a boolean, a number, a string, an array, or an object of such
\* values or of objects.
C18_Reflexive ==
    (call.fn = "diff_json_objects" /\ call.v1 = call.v2) =>
        /\ call.first = <<>>
        /\ call.second = <<>>

\* an object holding an object has been compared with itself twice
C18_Witness ==
    /\ call.fn = "diff_json_objects" /\ call.at = "again"
    /\ call.v1 = call.v2
    /\ call.v1.t = "object"
    /\ DOMAIN call.v1.o = Keys
    /\ call.v1.o["a"].t = "object"
    /\ DOMAIN call.v1.o["a"].o = Keys

\* C19 (as stated): the keys are visited in ascending order at every level,
\* so two runs of diff_json_objects on the same pair of values return the
\* same sequence of entries.
C19_SameSequenceEveryRun ==
    (call.fn = "diff_json_objects" /\ call.at = "again") => call.second = call.first

----------------------------------------------------------------------------
(* plugins.rs: read_repo_plugins *)

MaxStatus == 7      \* a pluginStatus in the file is 0..MaxStatus

INSTALLED_BIT == 2

\* u32 & u32
RECURSIVE BitAnd(_, _)
BitAnd(a, b) ==
    IF a = 0 \/ b = 0 THEN 0
    ELSE (a % 2) * (b % 2) + 2 * BitAnd(a \div 2, b \div 2)

\* a RepoPlugin of plugin_status.json: its path, and its pluginStatus if
\* the record has one (<<>> when the field is missing)
RepoPlugins(path) ==
    [path : {path}, pluginStatus : {<<>>} \cup {<<s>> : s \in 0 .. MaxStatus}]

\* the files of the model: an official repository with two plugin records
\* and a community repository with one
StatusFiles ==
    {<<<<x, y>>, <<z>>>> :
        x \in RepoPlugins("x"), y \in RepoPlugins("y"), z \in RepoPlugins("z")}

\* #[serde(default, rename = "pluginStatus")] plugin_status: u32
plugin_status(plugin) ==
    IF plugin.pluginStatus = <<>> THEN 0 ELSE plugin.pluginStatus[1]

\* Mutant: any status bit counts as installed
IsInstalled_nonzero(status) == status # 0

\* plugin.plugin_status & INSTALLED_BIT != 0
IsInstalled(status) == BitAnd(status, INSTALLED_BIT) # 0

\* the PluginInfo records one repository contributes, in the file's order
RepoInfos(repo, idx) ==
    LET kept == SelectSeq(repo, LAMBDA plugin : IsInstalled(plugin_status(plugin)))
    IN  [i \in 1 .. Len(kept) |->
            [dir_name |-> kept[i].path,
             source |-> IF idx = 1 THEN "Official" ELSE "Community"]]

\* read_repo_plugins on a file that parses: the loop over the first n repositories
RECURSIVE ReadRepos(_, _)
ReadRepos(repos, n) ==
    IF n = 0 THEN <<>> ELSE ReadRepos(repos, n - 1) \o RepoInfos(repos[n], n)

read_repo_plugins(repos) == ReadRepos(repos, Len(repos))

\* list_plugins has found a plugin_status.json
InitPlugins ==
    /\ NoSync
    /\ \E repos \in StatusFiles :
          call = [fn |-> "read_repo_plugins", repos |-> repos, at |-> "start",
                  plugins |-> <<>>]

ReadRepoPlugins ==
    /\ call.fn = "read_repo_plugins" /\ call.at = "start"
    /\ call' = [call EXCEPT !.at = "done", !.plugins = read_repo_plugins(call.repos)]
    /\ UNCHANGED SyncVars

NextPlugins == ReadRepoPlugins

SpecPlugins == InitPlugins /\ [][NextPlugins]_vars

\* bit value 2 of a pluginStatus that is present
BitTwoSet(plugin) ==
    plugin.pluginStatus # <<>> /\ (plugin.pluginStatus[1] \div 2) % 2 = 1

\* C20: a record of plugin_status.json is in the inventory if and only if
\* bit value 2 of its pluginStatus is set: no other bit, and no missing
\* status, changes that; the inventory holds nothing else, and the records
\* come in the file's order with the source of their repository.
C20_InstalledBit ==
    (call.fn = "read_repo_plugins" /\ call.at = "done") =>
        /\ \A i \in 1 .. Len(call.repos) : \A j \in 1 .. Len(call.repos[i]) :
              LET plugin == call.repos[i][j]
                  info == [dir_name |-> plugin.path,
                           source |-> IF i = 1 THEN "Official" ELSE "Community"]
              IN  BitTwoSet(plugin) <=> info \in SeqToSet(call.plugins)
        /\ Len(call.plugins) =
              Cardinality({<<i, j>> \in {1, 2} \X {1, 2} :
                              /\ j <= Len(call.repos[i])
                              /\ BitTwoSet(call.repos[i][j])})

\* status 3 is in, status 1 and a missing status are out
C20_Witness ==
    /\ call.fn = "read_repo_plugins" /\ call.at = "done"
    /\ call.repos[1][1].pluginStatus = <<1>>
    /\ call.repos[1][2].pluginStatus = <<>>
    /\ call.repos[2][1].pluginStatus = <<3>>
    /\ call.plugins = <<[dir_name |-> "z", source |-> "Community"]>>

----------------------------------------------------------------------------
(* plugins.rs: list_plugins *)

\* Option<String>: <<>> is None, <<s>> is Some(s)
NoMeta == [name |-> <<>>, version |-> <<>>, author |-> <<>>]

\* what plugin.json of a manual plugin may be: missing, unreadable, not a
\* PluginJson, or a PluginJson with or without a name
PluginJsonFiles ==
    {[state |-> s, meta |-> NoMeta] : s \in {"missing", "unreadable", "unparseable", "ok"}}
        \cup {[state |-> "ok",
               meta |-> [name |-> <<"Alpha">>, version |-> <<"1">>, author |-> <<>>]]}

\* what the plugins directory may be: absent, unreadable, or holding the
\* directory m1, a file notes.txt, and possibly the directory m2
PluginsDirs ==
    {[state |-> s, entries |-> {}] : s \in {"absent", "unreadable"}}
        \cup {[state |-> "ok",
               entries |-> {[dir_name |-> "m1", is_dir |-> TRUE, plugin_json |-> j],
                            [dir_name |-> "notes.txt", is_dir |-> FALSE,
                             plugin_json |-> [state |-> "missing", meta |-> NoMeta]]}
                           \cup more] :
                j \in PluginJsonFiles,
                more \in {{}, {[dir_name |-> "m2", is_dir |-> TRUE,
                                plugin_json |-> [state |-> "missing", meta |-> NoMeta]]}}}

\* what repositories/plugin_status.json may be: absent, unreadable, not a
\* PluginStatusFile, or one whose records have status 2 or none
ListStatusFiles ==
    {[state |-> s, repos |-> <<>>] : s \in {"absent", "unreadable", "unparseable"}}
        \cup {[state |-> "ok", repos |-> f] :
                f \in {f \in StatusFiles :
                         \A i \in 1 .. Len(f) : \A j \in 1 .. Len(f[i]) :
                             f[i][j].pluginStatus \in {<<>>, <<INSTALLED_BIT>>}}}

\* read_plugin_metadata: the metadata if plugin.json exists, can be read
\* and parses; the bare PluginInfo otherwise
read_plugin_metadata(entry) ==
    LET meta == IF entry.plugin_json.state = "ok" THEN entry.plugin_json.meta ELSE NoMeta
    IN  [dir_name |-> entry.dir_name, name |-> meta.name, version |-> meta.version,
         author |-> meta.author, source |-> "Manual"]

\* read_manual_plugins on a directory that can be listed: the directories
\* among the entries, in read_dir's order
read_manual_plugins(order) ==
    LET dirs == SelectSeq(order, LAMBDA entry : entry.is_dir)
    IN  [i \in 1 .. Len(dirs) |-> read_plugin_metadata(dirs[i])]

\* the PluginInfo of a record of the model's status files, which carry no
\* name, version or author
RepoPluginInfo(info) ==
    [dir_name |-> info.dir_name, name |-> <<>>, version |-> <<>>, author |-> <<>>,
     source |-> info.source]

\* str::to_lowercase, and the order of the lowercased names of the model
ToLowercase(s) == IF s = "Alpha" THEN "alpha" ELSE s
Collation == <<"alpha", "m1", "m2", "x", "y", "z">>
SortKey(info) ==
    LET shown == IF info.name # <<>> THEN info.name[1] ELSE info.dir_name
    IN  CHOOSE k \in 1 .. Len(Collation) : Collation[k] = ToLowercase(shown)

\* plugins.sort_by(..): a stable sort by the lowercased display name
SortByName(plugins) ==
    LET n == Len(plugins)
        perm == CHOOSE s \in Perms(1 .. n) :
                    \A i, j \in 1 .. n : i < j =>
                        \/ SortKey(plugins[s[i]]) < SortKey(plugins[s[j]])
                        \/ SortKey(plugins[s[i]]) = SortKey(plugins[s[j]]) /\ s[i] < s[j]
    IN  [i \in 1 .. n |-> plugins[perm[i]]]

\* Mutant: a status file that cannot be read or parsed counts as empty
StatusFileFails_ignored(status_file) == FALSE

\* read_repo_plugins returns Err: read_to_string or serde_json::from_str failed
StatusFileFails(status_file) == status_file.state \in {"unreadable", "unparseable"}

\* list_plugins, with the plugins directory listed in the given order
list_plugins(plugins_dir, order, status_file) ==
    IF plugins_dir.state = "unreadable"
    THEN [ret |-> "Err", msg |-> "Failed to read plugins directory", plugins |-> <<>>]
    ELSE IF StatusFileFails(status_file)
    THEN [ret |-> "Err",
          msg |-> IF status_file.state = "unreadable"
                  THEN "Failed to read plugin_status.json"
                  ELSE "Failed to parse plugin_status.json",
          plugins |-> <<>>]
    ELSE LET manual == IF plugins_dir.state = "ok" THEN read_manual_plugins(order) ELSE <<>>
             repo == IF status_file.state = "ok"
                     THEN read_repo_plugins(status_file.repos) ELSE <<>>
         IN  [ret |-> "Ok", msg |-> "",
              plugins |-> SortByName(manual
                                     \o [i \in 1 .. Len(repo) |-> RepoPluginInfo(repo[i])])]

\* a profile whose configuration directory holds any of these
InitList ==
    /\ NoSync
    /\ \E plugins_dir \in PluginsDirs, status_file \in ListStatusFiles :
          call = [fn |-> "list_plugins", plugins_dir |-> plugins_dir,
                  status_file |-> status_file, at |-> "start",
                  out |-> [ret |-> "-", msg |-> "", plugins |-> <<>>]]

ListPlugins ==
    /\ call.fn = "list_plugins" /\ call.at = "start"
    /\ \E order \in Perms(call.plugins_dir.entries) :
          call' = [call EXCEPT !.at = "done",
                               !.out = list_plugins(call.plugins_dir, order,
                                                    call.status_file)]
    /\ UNCHANGED SyncVars

NextList == ListPlugins

SpecList == InitList /\ [][NextList]_vars

ListDone == call.fn = "list_plugins" /\ call.at = "done"

\* the manual plugin directories whose plugin.json is missing, unreadable
\* or not a PluginJson
BadMetadata ==
    {entry \in call.plugins_dir.entries : entry.is_dir /\ entry.plugin_json.state # "ok"}

\* C21: a missing, unreadable or unparseable plugin.json of a manual plugin
\* is not an error of list_plugins, and the plugin is listed with its
\* dir_name, source Manual and no name, version or author; an unparseable
\* plugin_status.json makes the call return an error and no inventory
C21_MetadataTolerated ==
    ListDone =>
        /\ call.out.ret = "Err" <=>
               \/ call.plugins_dir.state = "unreadable"
               \/ call.status_file.state \in {"unreadable", "unparseable"}
        /\ call.out.ret = "Ok" =>
               \A entry \in BadMetadata :
                   \E i \in 1 .. Len(call.out.plugins) :
                       call.out.plugins[i] =
                           [dir_name |-> entry.dir_name, name |-> <<>>, version |-> <<>>,
                            author |-> <<>>, source |-> "Manual"]
        /\ call.status_file.state = "unparseable" =>
               /\ call.out.ret = "Err"
               /\ call.out.plugins = <<>>

\* C21 witness: a call that listed two manual plugins with no usable
\* plugin.json next to a repository plugin
C21_Witness ==
    /\ ListDone
    /\ call.out.ret = "Ok"
    /\ \E entry \in BadMetadata : entry.plugin_json.state = "unparseable"
    /\ Len(call.out.plugins) >= 3

\* C21 witness of the error: manual plugins were there, and the status file
\* did not parse
C21_WitnessStatusError ==
    /\ ListDone
    /\ call.status_file.state = "unparseable"
    /\ call.plugins_dir.state = "ok"
    /\ call.out.ret = "Err"

----------------------------------------------------------------------------
(* The source, the snapshots and the rest of the target *)

\* C22: a sync never modifies the source profile's configuration directory:
\* for every source and target run_sync accepts (a target equal to the
\* source included), the source's content when run_sync has returned is its
\* content before
C22_SourceUnchanged ==
    (pc = "idle" /\ opts.from \in Profiles) =>
        Subtree(fs, config_dir[opts.from]) = Subtree(pre, config_dir[opts.from])

\* the same for the catalog items alone, whatever snapshots were added
C22_SourceItemsUnchanged ==
    (pc = "idle" /\ opts.from \in Profiles) =>
        ItemsOf(fs, config_dir[opts.from]) = ItemsOf(pre, config_dir[opts.from])

\* the same for the runs whose targets are other profiles than the source
C22_SourceUnchangedByOthers ==
    (opts.from \in Profiles /\ opts.from \notin SeqToSet(targets)) =>
        Subtree(fs, config_dir[opts.from]) = Subtree(pre, config_dir[opts.from])

\* the sync to the current target has ended after it overwrote at least
\* one item that was there: all the copies were made, or a copy failed
\* after the first one was made
OverwroteAndEnded ==
    /\ pc = "idle"
    /\ backup_dir \notin {"unset", "None"}
    /\ \/ SyncComplete
       \/ result = "Err" /\ msg = "Failed to copy" /\ ii > 1

\* C23: whenever the sync to a target overwrote at least one item that was
\* there, the snapshot this sync created is still in the target when the
\* sync to that target ends (in success or in a copy failure), for every
\* retention >= 1 and every set of snapshot names already in the target
C23_NewSnapshotSurvives ==
    (OverwroteAndEnded /\ opts.backup_retention >= 1) => Exists(fs, SnapshotDir)

\* the same when every snapshot already in the target is older than the clock
C23_NewSnapshotSurvivesOlderOnes ==
    (/\ OverwroteAndEnded
     /\ opts.backup_retention >= 1
     /\ \A old \in Backups(pre, target_dir) : BackupTimestamp(old) < clock) =>
        Exists(fs, SnapshotDir)

\* the directory create_backup writes into when it runs now
NewSnapshotDir == Join(target_dir, backup_name(clock))

\* a step of create_backup leaves every snapshot of the target as it was
SnapshotsKept ==
    \A old \in Backups(fs, target_dir) : Subtree(fs', old) = Subtree(fs, old)

\* C24: create_backup always writes into a snapshot directory that did not
\* exist before, and never changes the content of a snapshot that already
\* exists, also when two syncs to the same target take their timestamp in
\* the same clock second
C24_SnapshotsImmutable ==
    [][pc = "backup" => /\ fs' # fs => ~Exists(fs, NewSnapshotDir)
                        /\ SnapshotsKept]_vars

\* the same for the calls of create_backup that find no directory of the
\* name they are about to use
C24_SnapshotsImmutableIfFresh ==
    [][(pc = "backup" /\ ~Exists(fs, NewSnapshotDir)) => SnapshotsKept]_vars

\* the second sync of the same clock second has written over the snapshot
\* of the first: the snapshot no longer holds what the first sync saved
C24_SecondSyncSameSecond ==
    /\ pc = "prune"
    /\ completed = 1
    /\ Backups(pre, target_dir) = {SnapshotDir}
    /\ Subtree(fs, SnapshotDir) # Subtree(pre, SnapshotDir)

\* the entries of the target's configuration directory, before or now
TargetEntryNames ==
    {q[Len(target_dir) + 1] :
        q \in {q \in DOMAIN pre \cup DOMAIN fs :
                  IsPrefix(target_dir, q) /\ Len(q) > Len(target_dir)}}

\* the entry and all below it are what they were before run_sync
EntryUnchanged(name) ==
    Subtree(fs, Join(target_dir, name)) = Subtree(pre, Join(target_dir, name))

\* the prefix followed by decimal digits: the names of snapshot directories
NumericSuffixes == {U64ToString(n) : n \in 0 .. 9} \cup {"01"}
IsSnapshotName(name) == \E s \in NumericSuffixes : name = BACKUP_PREFIX \o s

\* the prefix followed by anything parse::<u64> accepts
IsParsedName(name) == \E s \in Suffixes : name = BACKUP_PREFIX \o s /\ ParseU64(s) >= 0

\* C25: a sync to a target changes only the target paths named by the items
\* of the plan and the backup snapshot directories: every other entry of the
\* target's configuration directory (excluded items, catalog items absent
\* from the source, files outside the catalog, directories with the backup
\* prefix but a non-numeric suffix) has the same content before and after
C25_Frame ==
    (opts.from \in Profiles /\ ti >= 1) =>
        \A name \in TargetEntryNames :
            (name \notin SeqToSet(items) /\ ~IsSnapshotName(name)) => EntryUnchanged(name)

\* the same with the directories whose suffix parse::<u64> accepts counted
\* among the snapshot directories
C25_FrameParsed ==
    (opts.from \in Profiles /\ ti >= 1) =>
        \A name \in TargetEntryNames :
            (name \notin SeqToSet(items) /\ ~IsParsedName(name)) => EntryUnchanged(name)

\* a sync has ended that left alone an excluded file, a catalog item the
\* source does not have, a file outside the catalog and a directory whose
\* suffix does not parse, while it pruned a snapshot
FrameExercised ==
    /\ SyncComplete
    /\ opts.backup_retention >= 1
    /\ Backups(pre, target_dir) \ Backups(fs, target_dir) # {}
    /\ {"license.dat", "themes", "notes.txt", BACKUP_PREFIX \o "old"} \subseteq TargetEntryNames
    /\ Exists(fs, Join(source_dir, "license.dat"))

----------------------------------------------------------------------------
(* diff.rs: an empty diff *)

DiffReturned == call.fn = "diff_json_objects" /\ call.at # "start"

\* C26: diff_json_objects(A, B) returns an empty sequence if and only if A
\* equals B as JSON values, for all values A and B: every structural
\* difference at any depth yields at least one Added, Removed or Changed
\* entry, and a pair of one object and one non-object yields exactly one
\* Changed entry
C26_EmptyIffEqual ==
    DiffReturned =>
        /\ call.first = <<>> <=> call.v1 = call.v2
        /\ call.at \in {"swapped", "again"} => (call.second = <<>> <=> call.v1 = call.v2)
        /\ \A i \in 1 .. Len(call.first) : call.first[i].kind \in {"Added", "Removed", "Changed"}
        /\ (call.v1.t = "object") # (call.v2.t = "object") =>
              call.first = <<Changed("", call.v1, call.v2)>>

\* two objects that differ only two levels down, and the difference is reported
C26_Witness ==
    /\ DiffReturned
    /\ call.v1.t = "object" /\ call.v2.t = "object"
    /\ DOMAIN call.v1.o = {"a"} /\ DOMAIN call.v2.o = {"a"}
    /\ call.v1.o["a"].t = "object" /\ call.v2.o["a"].t = "object"
    /\ DOMAIN call.v1.o["a"].o = {"a", "b"}
    /\ DOMAIN call.v2.o["a"].o = {"a"}
    /\ call.v1.o["a"].o["a"] = call.v2.o["a"].o["a"]
    /\ call.first = <<Removed("a.b")>>

\* an object against a value that is none, reported as one change
C26_WitnessObjectAgainstOther ==
    /\ DiffReturned
    /\ call.v1.t = "object" /\ DOMAIN call.v1.o = Keys
    /\ call.v2.t = "null"
    /\ call.first = <<Changed("", call.v1, call.v2)>>

----------------------------------------------------------------------------
(* init.rs: run_init *)

LICENSE_FILES == <<"license.dat", "license.txt">>

\* the configuration file run_init appends to.  Its content is counted in
\* half sections: a profile section written in full adds 2, one cut short 1
config_path == <<"etc", "config.toml">>

\* the profile names of the model, as the characters they are made of
NameChars(name) ==
    CASE name = "new"      -> <<"n", "e", "w">>
      [] name = "dev_2"    -> <<"d", "e", "v", "_", "2">>
      [] name = "bad name" -> <<"b", "a", "d", " ", "n", "a", "m", "e">>
      [] name = "a.b"      -> <<"a", ".", "b">>
      [] name = "p1"       -> <<"p", "1">>
      [] name = "p2"       -> <<"p", "2">>
      [] OTHER             -> <<>>

\* char::is_alphanumeric on the characters of the model
IsAlphanumeric(c) == c \in {"a", "b", "d", "e", "m", "n", "p", "v", "w", "1", "2"}

\* is_valid_profile_name
is_valid_profile_name(name) ==
    /\ NameChars(name) # <<>>
    /\ \A i \in 1 .. Len(NameChars(name)) :
          LET c == NameChars(name)[i] IN IsAlphanumeric(c) \/ c = "-" \/ c = "_"

\* what the template's configuration directory may hold
LicenseTrees ==
    {EmptyFs,
     (<<"license.dat">> :> File(1)),
     (<<"license.dat">> :> File(1)) @@ (<<"license.txt">> :> File(2))
        @@ (<<"settings.json">> :> File(1))}

\* the InitOptions the operator may pass
InitCommands ==
    [name : {"new", "dev_2", "bad name", "a.b", "", "p2"},
     template : {"p1", "nope"},
     config_dir : {<<"home", "new">>, <<"home", "p2">>, <<"home", "more", "new">>}]

NoInit == [fn |-> "run_init", at |-> "idle", ret |-> "-", msg |-> "", idx |-> 0,
           options |-> [name |-> "", template |-> "", config_dir |-> <<>>]]

\* the profiles p1 and maybe p2 are configured; their directories and the
\* configuration file exist
InitInit ==
    /\ \E tree \in LicenseTrees :
          fs = (config_path :> File(0))
                  @@ GraftAll(EmptyFs, {[at |-> config_dir["p1"], tree |-> tree],
                                        [at |-> config_dir["p2"], tree |-> EmptyFs],
                                        [at |-> <<"etc">>, tree |-> EmptyFs]})
    /\ pre = fs
    /\ config \in [profiles : {{"p1"}, {"p1", "p2"}}, sync_exclusions : {<<>>}]
    /\ faults = MaxFaults
    /\ call = NoInit
    /\ clock = 0 /\ runs = 0 /\ mode = "init"
    /\ pc = "idle" /\ opts = NoCommand
    /\ targets = <<>> /\ ti = 0 /\ items = <<>> /\ ii = 0
    /\ backup_dir = "unset" /\ result = "-" /\ msg = "" /\ stdin = "unread"
    /\ prevOk = FALSE /\ completed = 0

InitFrameVars ==
    <<clock, runs, mode, config, pc, opts, targets, ti, items, ii, backup_dir,
      result, msg, stdin, prevOk, completed>>

InitReturn(res, m) == call' = [call EXCEPT !.at = "done", !.ret = res, !.msg = m]

\* init.rs:19-46: the three checks, then create_dir_all(options.config_dir)
RunInit ==
    /\ call.fn = "run_init" /\ call.at = "idle"
    /\ pre' = fs
    /\ UNCHANGED InitFrameVars
    /\ \E options \in InitCommands, created \in BOOLEAN :
          LET started == [call EXCEPT !.options = options]
              failed(m) == call' = [started EXCEPT !.at = "done", !.ret = "Err", !.msg = m]
          IN  IF options.template \notin config.profiles
              THEN failed("Template profile not found") /\ UNCHANGED <<fs, faults>>
              ELSE IF options.name \in config.profiles
              THEN failed("Profile already exists") /\ UNCHANGED <<fs, faults>>
              ELSE IF Exists(fs, options.config_dir)
              THEN failed("Config directory already exists") /\ UNCHANGED <<fs, faults>>
              ELSE IF created
              THEN /\ fs' = CreateDirAll(fs, options.config_dir)
                   /\ call' = [started EXCEPT !.at = "copy", !.idx = 1]
                   /\ UNCHANGED faults
              ELSE /\ faults > 0
                   /\ faults' = faults - 1
                   /\ UNCHANGED fs
                   /\ failed("Failed to create config directory")

\* init.rs:48-57: one turn of the loop over LICENSE_FILES
CopyLicense ==
    /\ call.fn = "run_init" /\ call.at = "copy"
    /\ UNCHANGED <<pre, InitFrameVars>>
    /\ LET src == Join(config_dir[call.options.template], LICENSE_FILES[call.idx])
           dst == Join(call.options.config_dir, LICENSE_FILES[call.idx])
           next == IF call.idx < Len(LICENSE_FILES)
                   THEN [call EXCEPT !.idx = call.idx + 1]
                   ELSE [call EXCEPT !.at = "append"]
       IN  IF Exists(fs, src)
           THEN \E stage \in {"ok", "open", "write"} :
                   IF stage = "ok"
                   THEN /\ fs' = FsCopy(fs, src, dst)
                        /\ call' = next
                        /\ UNCHANGED faults
                   ELSE /\ faults > 0
                        /\ faults' = faults - 1
                        /\ fs' = IF stage = "write" THEN (dst :> File(0)) @@ fs ELSE fs
                        /\ InitReturn("Err", "Failed to copy")
           ELSE /\ call' = next
                /\ UNCHANGED <<fs, faults>>

\* append_profile_to_config, and the end of run_init
AppendProfile ==
    /\ call.fn = "run_init" /\ call.at = "append"
    /\ UNCHANGED <<pre, InitFrameVars>>
    /\ IF ~is_valid_profile_name(call.options.name)
       THEN InitReturn("Err", "Invalid profile name") /\ UNCHANGED <<fs, faults>>
       ELSE \E stage \in {"ok", "open", "write", "cut"} :
               IF stage = "ok"
               THEN /\ fs' = [fs EXCEPT ![config_path] = File(@.d + 2)]
                    /\ InitReturn("Ok", "initialized successfully")
                    /\ UNCHANGED faults
               ELSE /\ faults > 0
                    /\ faults' = faults - 1
                    /\ fs' = IF stage = "cut"
                             THEN [fs EXCEPT ![config_path] = File(@.d + 1)]
                             ELSE fs
                    /\ InitReturn("Err", IF stage = "open"
                                         THEN "Failed to open config file"
                                         ELSE "Failed to write to config file")

NextInit ==
    \/ RunInit
    \/ CopyLicense
    \/ AppendProfile

SpecInit == InitInit /\ [][NextInit]_vars

\* run_init has returned an error
InitFailed == call.fn = "run_init" /\ call.at = "done" /\ call.ret = "Err"

\* C27: when run_init returns an error it has made no change on disk: the
\* new configuration directory has not been created, no license file has
\* been copied and the configuration file has not been appended to; this
\* holds for a missing template, an existing profile name, an existing
\* configuration directory and an invalid profile name
C27_ErrorLeavesDiskUnchanged ==
    (/\ InitFailed
     /\ call.msg \in {"Template profile not found", "Profile already exists",
                      "Config directory already exists", "Invalid profile name"}) =>
        fs = pre

\* the same for the errors of the three checks run_init starts with
C27_EarlyErrorLeavesDiskUnchanged ==
    (/\ InitFailed
     /\ call.msg \in {"Template profile not found", "Profile already exists",
                      "Config directory already exists"}) => fs = pre

\* the invalid name is never appended to the configuration file
C27_InvalidNameNotAppended ==
    (InitFailed /\ call.msg = "Invalid profile name") => fs[config_path] = pre[config_path]

\* run_init has rejected an invalid profile name after it created the
\* directory and copied a license file into it
C27_InvalidNameLeavesDirectory ==
    /\ InitFailed
    /\ call.msg = "Invalid profile name"
    /\ ~Exists(pre, call.options.config_dir)
    /\ IsDir(fs, call.options.config_dir)
    /\ Exists(fs, Join(call.options.config_dir, "license.dat"))

============================================================================
